---- MODULE Spec2Model ----
(***************************************************************************)
(* Model of src/filesystem_mcp_standard.py: the path sandbox               *)
(* (is_safe_path, get_safe_path), the four file operations, the request    *)
(* dispatcher (handle_request) and the transport loop (run).               *)
(*                                                                         *)
(* A Python str is a sequence of one-character strings, so that            *)
(* str.startswith, `in`, str.lower and the code-point order used by        *)
(* sorted() are computed, not assumed.  A pathlib.Path is the sequence of  *)
(* its parts (each part a str); every Path of the program is absolute.     *)
(***************************************************************************)
EXTENDS Integers, Sequences, FiniteSets, TLC

VARIABLES
    world,   \* the server (root_path) and the filesystem it runs on
    pc,      \* where run() is: "running" in its loop, "done" after it
    nread,   \* input lines read so far
    nreq,    \* of these, the lines that parsed as JSON and are no
             \* `initialized` notification
    nbad,    \* and the lines that did not parse as JSON
    output,  \* the lines printed to stdout so far
    last     \* the line handled last and what handling it came to

vars == <<world, pc, nread, nreq, nbad, output, last>>

----------------------------------------------------------------------------
(* Bounds of the model.                                                    *)

\* Number of input lines the transport loop reads before the stream ends.
MaxLines == 2

\* Length of the chain of nested directories /r/d/d/.../d of the layout.
ChainDepth == 7

\* Symbolic links followed while resolving one path before giving up.
MaxLinks == 4

----------------------------------------------------------------------------
(* Python str                                                              *)

Upper == <<"A","B","C","D","E","F","G","H","I","J","K","L","M","N","O","P","Q","R","S","T","U","V","W","X","Y","Z">>
Lowr  == <<"a","b","c","d","e","f","g","h","i","j","k","l","m","n","o","p","q","r","s","t","u","v","w","x","y","z">>

\* The characters of the model in code-point order.
Ascii == <<".","/","0","1","2","3","4","5","6","7","8","9","A","B","C","D","E","F","G","H","I","J","K","L","M","N","O","P","Q","R","S","T","U","V","W","X","Y","Z","_","a","b","c","d","e","f","g","h","i","j","k","l","m","n","o","p","q","r","s","t","u","v","w","x","y","z">>

Ord(c) == CHOOSE i \in 1..Len(Ascii) : Ascii[i] = c

LowerChar(c) ==
    IF \E i \in 1..Len(Upper) : Upper[i] = c
    THEN Lowr[CHOOSE i \in 1..Len(Upper) : Upper[i] = c]
    ELSE c

\* str.lower()
StrLower(s) == [i \in 1..Len(s) |-> LowerChar(s[i])]

\* s.startswith(p)
StartsWith(s, p) == Len(p) <= Len(s) /\ SubSeq(s, 1, Len(p)) = p

\* p in s
Contains(s, p) ==
    \E i \in 0..(Len(s) - Len(p)) : SubSeq(s, i + 1, i + Len(p)) = p

\* a < b for two str (code-point lexicographic order): a is a proper
\* prefix of b, or the first character that differs is smaller in a.
StrLess(a, b) ==
    \/ Len(a) < Len(b) /\ SubSeq(b, 1, Len(a)) = a
    \/ \E i \in 1..Len(a) :
          /\ i <= Len(b)
          /\ SubSeq(a, 1, i - 1) = SubSeq(b, 1, i - 1)
          /\ Ord(a[i]) < Ord(b[i])

----------------------------------------------------------------------------
(* pathlib                                                                 *)

\* os.path.isabs
IsAbs(s) == Len(s) > 0 /\ s[1] = "/"

\* The parts of a path string: what lies between two "/" (or an end of
\* the string), in order, without the empty and the "." parts.
Parts(s) ==
    LET seps == {0, Len(s) + 1} \cup {i \in 1..Len(s) : s[i] = "/"}
        next(a) == CHOOSE b \in seps : b > a /\ \A c \in seps : ~(a < c /\ c < b)
        seg(a) == SubSeq(s, a + 1, next(a) - 1)
        starts == {a \in seps : a <= Len(s) /\ seg(a) # <<>> /\ seg(a) # <<".">>}
    IN  [k \in 1..Cardinality(starts) |->
            seg(CHOOSE a \in starts : Cardinality({b \in starts : b < a}) = k - 1)]

\* str(path) of an absolute path
RECURSIVE PathStr(_)
PathStr(parts) ==
    IF parts = <<>> THEN <<"/">>
    ELSE IF Len(parts) = 1 THEN <<"/">> \o parts[1]
    ELSE PathStr(SubSeq(parts, 1, Len(parts) - 1)) \o <<"/">> \o parts[Len(parts)]

\* path.name
PathName(parts) == IF parts = <<>> THEN <<>> ELSE parts[Len(parts)]

\* The index of the last "." of a name, 0 when there is none.
LastDot(name) ==
    IF \E i \in 1..Len(name) : name[i] = "."
    THEN CHOOSE i \in 1..Len(name) :
            name[i] = "." /\ \A j \in (i + 1)..Len(name) : name[j] # "."
    ELSE 0

\* path.suffix: from the last "." of the name, unless the name starts or
\* ends with it.
Suffix(parts) ==
    LET name == PathName(parts)
        i == LastDot(name)
    IN  IF i > 1 /\ i < Len(name) THEN SubSeq(name, i, Len(name)) ELSE <<>>

DotDot == <<".", ".">>

Parent(parts) == IF parts = <<>> THEN <<>> ELSE SubSeq(parts, 1, Len(parts) - 1)

IsPrefix(p, q) == Len(p) <= Len(q) /\ SubSeq(q, 1, Len(p)) = p

----------------------------------------------------------------------------
(* The filesystem: a function from canonical absolute paths to nodes.      *)

\* A node: a directory, a regular file (its size in bytes, its bytes as a
\* token, whether they decode as UTF-8) or a symbolic link (its target, a
\* path string).  readable is the permission to list or read it.
Dir == [type |-> "dir", target |-> <<>>, size |-> 0, content |-> "", decodes |-> TRUE, readable |-> TRUE]
NoReadDir == [type |-> "dir", target |-> <<>>, size |-> 0, content |-> "", decodes |-> TRUE, readable |-> FALSE]
File(n, c) == [type |-> "file", target |-> <<>>, size |-> n, content |-> c, decodes |-> TRUE, readable |-> TRUE]
BinFile(n, c) == [type |-> "file", target |-> <<>>, size |-> n, content |-> c, decodes |-> FALSE, readable |-> TRUE]
Link(t) == [type |-> "link", target |-> t, size |-> 0, content |-> "", decodes |-> TRUE, readable |-> TRUE]

\* The entry at a path is a symbolic link.
IsLink(fs, cand) == cand \in DOMAIN fs /\ fs[cand].type = "link"

\* Where the target of the link cand, met in the directory cur, is looked
\* up from: the root when the target is absolute.
LinkBase(fs, cur, cand) == IF IsAbs(fs[cand].target) THEN <<>> ELSE cur

\* Path.resolve(): symbolic links followed and ".." removed, left to right;
\* a part that does not exist is kept (strict=False).  ok is FALSE when
\* more than MaxLinks links are met (a link loop: resolve() raises).
RECURSIVE ResolveFrom(_, _, _, _)
ResolveFrom(fs, cur, rest, links) ==
    CASE rest = <<>> -> [ok |-> TRUE, path |-> cur]
      [] rest # <<>> /\ Head(rest) = DotDot ->
            ResolveFrom(fs, Parent(cur), Tail(rest), links)
      [] rest # <<>> /\ Head(rest) # DotDot /\ IsLink(fs, Append(cur, Head(rest)))
            /\ links = 0 ->
            [ok |-> FALSE, path |-> <<>>]
      [] rest # <<>> /\ Head(rest) # DotDot /\ IsLink(fs, Append(cur, Head(rest)))
            /\ links > 0 ->
            ResolveFrom(fs, LinkBase(fs, cur, Append(cur, Head(rest))),
                        Parts(fs[Append(cur, Head(rest))].target) \o Tail(rest), links - 1)
      [] OTHER -> ResolveFrom(fs, Append(cur, Head(rest)), Tail(rest), links)

Resolve(fs, parts) == ResolveFrom(fs, <<>>, parts, MaxLinks)

\* What the kernel finds at a path (stat, following links): the canonical
\* path of the node, or found = FALSE when a part is missing or is not a
\* directory.
RECURSIVE LookupFrom(_, _, _, _)
LookupFrom(fs, cur, rest, links) ==
    CASE cur \notin DOMAIN fs -> [found |-> FALSE, path |-> <<>>]
      [] cur \in DOMAIN fs /\ rest = <<>> -> [found |-> TRUE, path |-> cur]
      [] cur \in DOMAIN fs /\ rest # <<>> /\ fs[cur].type # "dir" ->
            [found |-> FALSE, path |-> <<>>]
      [] cur \in DOMAIN fs /\ rest # <<>> /\ fs[cur].type = "dir"
            /\ Head(rest) = DotDot ->
            LookupFrom(fs, Parent(cur), Tail(rest), links)
      [] cur \in DOMAIN fs /\ rest # <<>> /\ fs[cur].type = "dir"
            /\ Head(rest) # DotDot /\ IsLink(fs, Append(cur, Head(rest))) /\ links = 0 ->
            [found |-> FALSE, path |-> <<>>]
      [] cur \in DOMAIN fs /\ rest # <<>> /\ fs[cur].type = "dir"
            /\ Head(rest) # DotDot /\ IsLink(fs, Append(cur, Head(rest))) /\ links > 0 ->
            LookupFrom(fs, LinkBase(fs, cur, Append(cur, Head(rest))),
                       Parts(fs[Append(cur, Head(rest))].target) \o Tail(rest), links - 1)
      [] OTHER -> LookupFrom(fs, Append(cur, Head(rest)), Tail(rest), links)

Lookup(fs, parts) == LookupFrom(fs, <<>>, parts, MaxLinks)

\* What stat() finds at a path: the node the lookup ends on, NoNode when
\* it finds none.
NoNode == [type |-> "none", target |-> <<>>, size |-> 0, content |-> "", decodes |-> TRUE, readable |-> TRUE]
NodeOf(fs, l) == IF l.found THEN fs[l.path] ELSE NoNode
Stat(fs, parts) == NodeOf(fs, Lookup(fs, parts))

\* path.exists(), path.is_dir(), path.is_file(), path.stat().st_size
Exists(fs, parts) == Stat(fs, parts).type # "none"
IsDir(fs, parts) == Stat(fs, parts).type = "dir"
IsFile(fs, parts) == Stat(fs, parts).type = "file"
StSize(fs, parts) == Stat(fs, parts).size

\* The names of the children of the directory d.
ChildrenOf(fs, d) ==
    {q[Len(q)] : q \in {q \in DOMAIN fs : Len(q) = Len(d) + 1 /\ IsPrefix(d, q)}}

\* The names path.iterdir() yields: the children of the directory found at
\* the path.
ChildNames(fs, parts) == ChildrenOf(fs, Lookup(fs, parts).path)

----------------------------------------------------------------------------
(* FilesystemMCPServer: the sandbox                                        *)

unsafe_patterns == <<
    <<".",".">>,
    <<"_","_","p","y","c","a","c","h","e","_","_">>,
    <<".","g","i","t">>,
    <<".","e","n","v">>,
    <<"n","o","d","e","_","m","o","d","u","l","e","s">>,
    <<".","s","s","h">>,
    <<".","a","w","s">>,
    <<".","d","o","c","k","e","r">> ,
    <<"p","a","s","s","w","o","r","d","s">>,
    <<"s","e","c","r","e","t","s">> >>

\* `for pattern in unsafe_patterns: if pattern in path_str: return False`
NoUnsafePattern(path_str) ==
    ~ \E i \in 1..Len(unsafe_patterns) : Contains(path_str, unsafe_patterns[i])

\* is_safe_path without the test that the path is under the root.
is_safe_path_noroot(w, path) ==
    LET r == Resolve(w.fs, path)
    IN  r.ok /\ NoUnsafePattern(StrLower(PathStr(r.path)))

\* is_safe_path matching the patterns without lower-casing the path.
is_safe_path_nolower(w, path) ==
    LET r == Resolve(w.fs, path)
    IN  /\ r.ok
        /\ StartsWith(PathStr(r.path), PathStr(w.root_path))
        /\ NoUnsafePattern(PathStr(r.path))

\* The tests of is_safe_path on what path.resolve() gave: r.ok = FALSE is
\* the exception of resolve(), which the except clause turns into False.
IsSafeResolved(w, r) ==
    /\ r.ok
    /\ StartsWith(PathStr(r.path), PathStr(w.root_path))
    /\ NoUnsafePattern(StrLower(PathStr(r.path)))

\* is_safe_path(path): w is the server and its filesystem,
\* [root_path, fs].
is_safe_path(w, path) == IsSafeResolved(w, Resolve(w.fs, path))

\* A Python value passed as an argument: a str ([t |-> "str", v |-> chars]),
\* None ([t |-> "none"]) or a value of another JSON type ([t |-> "other"]).
PyStr(s) == [t |-> "str", v |-> s]
PyNone == [t |-> "none", v |-> <<>>]
PyOther == [t |-> "other", v |-> <<>>]

\* The Path get_safe_path builds from a str before checking it.
CandidatePath(w, s) == IF ~IsAbs(s) THEN w.root_path \o Parts(s) ELSE Parts(s)

\* `if self.is_safe_path(path): return path` and `return None`;
\* ok = FALSE is None.
SafePathOf(w, path) ==
    IF is_safe_path(w, path) THEN [ok |-> TRUE, path |-> path]
    ELSE [ok |-> FALSE, path |-> <<>>]

\* get_safe_path(path_str).  os.path.isabs raises TypeError on anything but
\* a str, which the except clause turns into None.
get_safe_path(w, a) ==
    IF a.t # "str" THEN [ok |-> FALSE, path |-> <<>>]
    ELSE SafePathOf(w, CandidatePath(w, a.v))

----------------------------------------------------------------------------
(* The record of the filesystem calls an operation makes, in order.        *)

Acc(op, path) == [op |-> op, path |-> path]

\* The calls of get_safe_path: one resolve() of the candidate, none when
\* the argument is not a str.
SandboxLog(w, a) ==
    IF a.t # "str" THEN <<>> ELSE <<Acc("resolve", CandidatePath(w, a.v))>>

----------------------------------------------------------------------------
(* The file operations                                                     *)

max_file_size == 10 * 1024 * 1024

allowed_extensions == {
    <<".","t","x","t">>, <<".","m","d">>, <<".","j","s","o","n">>,
    <<".","y","a","m","l">>, <<".","y","m","l">>, <<".","x","m","l">>,
    <<".","c","s","v">>, <<".","p","y">>, <<".","j","s">>, <<".","t","s">>,
    <<".","h","t","m","l">>, <<".","c","s","s">>, <<".","s","q","l">>,
    <<".","s","h">>, <<".","b","a","t">>, <<".","p","s","1">>,
    <<".","d","o","c","k","e","r","f","i","l","e">>,
    <<".","g","i","t","i","g","n","o","r","e">>, <<".","e","n","v">> }

\* The function f with every value computed once (f @@ f is f).
Tabulated(f) == f @@ f

\* The elements of S in ascending order, rank[x] being the number of
\* elements of S that come before x.
ByRank(S, rank) == [k \in 1..Cardinality(S) |-> CHOOSE x \in S : rank[x] = k - 1]

\* The names of a set of str in ascending code-point order.
SortNames(S) ==
    ByRank(S, Tabulated([x \in S |-> Cardinality({y \in S : StrLess(y, x)})]))

Reverse(s) == [i \in 1..Len(s) |-> s[Len(s) + 1 - i]]

\* The order iterdir() yields the names in, which the program does not
\* control: w.listdir_rev picks one of two orders.
Ordered(w, s) == IF w.listdir_rev THEN Reverse(s) ELSE s

\* iterdir() on the node found at the path.
IterNode(w, path, node) ==
    IF node.type = "none" THEN [err |-> "FileNotFoundError", names |-> <<>>]
    ELSE IF node.type # "dir" THEN [err |-> "NotADirectoryError", names |-> <<>>]
    ELSE IF ~node.readable THEN [err |-> "PermissionError", names |-> <<>>]
    ELSE [err |-> "", names |-> Ordered(w, SortNames(ChildNames(w.fs, path)))]

\* path.iterdir(): the entries, or err, the name of the OSError raised
\* instead.
IterDir(w, path) == IterNode(w, path, Stat(w.fs, path))

\* item.relative_to(self.root_path): lexical, on the unresolved parts;
\* ok = FALSE is ValueError.
RelativeTo(w, item) ==
    IF IsPrefix(w.root_path, item)
    THEN [ok |-> TRUE, rel |-> SubSeq(item, Len(w.root_path) + 1, Len(item))]
    ELSE [ok |-> FALSE, rel |-> <<>>]

\* str() of a relative path
RECURSIVE RelStr(_)
RelStr(parts) ==
    IF parts = <<>> THEN <<".">>
    ELSE IF Len(parts) = 1 THEN parts[1]
    ELSE RelStr(SubSeq(parts, 1, Len(parts) - 1)) \o <<"/">> \o parts[Len(parts)]

\* item_info for an entry: name, type, path relative to the root and, when
\* is_file(), size.
ItemOf(item, node, rel) ==
    IF node.type = "file"
    THEN [name |-> PathName(item), type |-> "file", path |-> rel, size |-> node.size]
    ELSE [name |-> PathName(item),
          type |-> IF node.type = "dir" THEN "directory" ELSE "file",
          path |-> rel]

ItemInfo(w, item) == ItemOf(item, Stat(w.fs, item), RelStr(RelativeTo(w, item).rel))

\* The sort key without the type: x["name"] alone.
ItemKeyLess_nameonly(x, y) == StrLess(x.name, y.name)

\* The sort key of list_directory: (x["type"] == "file", x["name"]).
ItemKeyLess(x, y) ==
    LET fx == (x.type = "file")
        fy == (y.type = "file")
    IN  IF fx # fy THEN fy ELSE StrLess(x.name, y.name)

\* sorted(items, key=...): the k-th item has k - 1 items before it.
SortItems(S) ==
    ByRank(S, Tabulated([x \in S |-> Cardinality({y \in S : ItemKeyLess(y, x)})]))

\* The calls the loop of list_directory makes for one entry, appended to
\* st = [log, err]: safe is what is_safe_path said of the entry.
\* relative_to raising ValueError ends the loop.
ListLogItem(w, item, safe, st) ==
    CASE ~safe -> [st EXCEPT !.log = Append(@, Acc("resolve", item))]
      [] safe /\ ~RelativeTo(w, item).ok ->
            [log |-> st.log \o <<Acc("resolve", item), Acc("is_dir", item)>>,
             err |-> "ValueError"]
      [] safe /\ RelativeTo(w, item).ok /\ IsFile(w.fs, item) ->
            [st EXCEPT !.log = @ \o <<Acc("resolve", item), Acc("is_dir", item),
                                      Acc("is_file", item), Acc("stat", item)>>]
      [] OTHER ->
            [st EXCEPT !.log = @ \o <<Acc("resolve", item), Acc("is_dir", item),
                                      Acc("is_file", item)>>]

\* The for loop of list_directory over the entries names[lo..hi] of dir,
\* in order (split in halves to keep the evaluation shallow).
RECURSIVE ListLogItems(_, _, _, _, _, _)
ListLogItems(w, dir, names, lo, hi, st) ==
    CASE st.err # "" \/ lo > hi -> st
      [] st.err = "" /\ lo = hi ->
            ListLogItem(w, Append(dir, names[lo]),
                        is_safe_path(w, Append(dir, names[lo])), st)
      [] OTHER ->
            ListLogItems(w, dir, names, (lo + hi) \div 2 + 1, hi,
                         ListLogItems(w, dir, names, lo, (lo + hi) \div 2, st))

\* The calls the loop of list_directory makes for the entries, in order.
ListLog(w, dir, names) ==
    ListLogItems(w, dir, names, 1, Len(names), [log |-> <<>>, err |-> ""]).log

\* list_directory after its loop: safe is the entries that passed
\* is_safe_path, log the calls made.
ListItems(w, path, dir, names, safe, log) ==
    IF \E i \in safe : ~RelativeTo(w, Append(dir, names[i])).ok
    THEN [result |-> [error |-> "ValueError"], log |-> log]
    ELSE [result |-> [path |-> path.v,
                      items |-> SortItems({ItemInfo(w, Append(dir, names[i])) : i \in safe})],
          log |-> log]

\* list_directory from safe_path.iterdir() on: it is what iterdir() gave.
ListEntries(w, path, dir, it, log) ==
    IF it.err # "" THEN [result |-> [error |-> it.err], log |-> log]
    ELSE ListItems(w, path, dir, it.names,
                   {i \in 1..Len(it.names) : is_safe_path(w, Append(dir, it.names[i]))},
                   log \o ListLog(w, dir, it.names))

\* list_directory from `if not safe_path` on: sp is what get_safe_path
\* returned and log the calls it made.
ListSafe(w, path, sp, log) ==
    IF ~sp.ok THEN [result |-> [error |-> "Invalid or unsafe path"], log |-> log]
    ELSE IF ~Exists(w.fs, sp.path)
    THEN [result |-> [error |-> "Path does not exist"],
          log |-> log \o <<Acc("exists", sp.path)>>]
    ELSE IF ~IsDir(w.fs, sp.path)
    THEN [result |-> [error |-> "Path is not a directory"],
          log |-> log \o <<Acc("exists", sp.path), Acc("is_dir", sp.path)>>]
    ELSE ListEntries(w, path, sp.path, IterDir(w, sp.path),
                     log \o <<Acc("exists", sp.path), Acc("is_dir", sp.path),
                              Acc("iterdir", sp.path)>>)

\* list_directory(path): [result, log].
list_directory(w, path) == ListSafe(w, path, get_safe_path(w, path), SandboxLog(w, path))

\* read_file from safe_path.read_text(encoding=encoding) on.  encoding is
\* "utf-8", another codec Python knows ("latin-1", which decodes any
\* bytes), a name it does not know ("bogus": LookupError) or not a str
\* ("other": TypeError).
ReadText(path, encoding, node, log) ==
    IF encoding = "other" THEN [result |-> [error |-> "TypeError"], log |-> log]
    ELSE IF ~node.readable THEN [result |-> [error |-> "PermissionError"], log |-> log]
    ELSE IF encoding = "bogus" THEN [result |-> [error |-> "LookupError"], log |-> log]
    ELSE IF encoding # "latin-1" /\ ~node.decodes
    THEN [result |-> [error |-> "Cannot decode file"], log |-> log]
    ELSE [result |-> [path |-> path.v, content |-> node.content,
                      size |-> node.size, encoding |-> encoding],
          log |-> log]

\* ReadNode with the size test refusing a file of exactly max_file_size.
ReadNode_capexclusive(path, encoding, safe_path, node, log) ==
    IF node.type = "none"
    THEN [result |-> [error |-> "File does not exist"],
          log |-> log \o <<Acc("exists", safe_path)>>]
    ELSE IF node.type # "file"
    THEN [result |-> [error |-> "Path is not a file"],
          log |-> log \o <<Acc("exists", safe_path), Acc("is_file", safe_path)>>]
    ELSE IF node.size >= max_file_size
    THEN [result |-> [error |-> "File too large"],
          log |-> log \o <<Acc("exists", safe_path), Acc("is_file", safe_path),
                           Acc("stat", safe_path)>>]
    ELSE IF StrLower(Suffix(safe_path)) \notin allowed_extensions
    THEN [result |-> [error |-> "File type not allowed"],
          log |-> log \o <<Acc("exists", safe_path), Acc("is_file", safe_path),
                           Acc("stat", safe_path)>>]
    ELSE ReadText(path, encoding, node,
                  log \o <<Acc("exists", safe_path), Acc("is_file", safe_path),
                           Acc("stat", safe_path), Acc("read_text", safe_path)>>)

\* ReadNode with the extension test comparing the suffix to nothing.
ReadNode_anysuffix(path, encoding, safe_path, node, log) ==
    IF node.type = "none"
    THEN [result |-> [error |-> "File does not exist"],
          log |-> log \o <<Acc("exists", safe_path)>>]
    ELSE IF node.type # "file"
    THEN [result |-> [error |-> "Path is not a file"],
          log |-> log \o <<Acc("exists", safe_path), Acc("is_file", safe_path)>>]
    ELSE IF node.size > max_file_size
    THEN [result |-> [error |-> "File too large"],
          log |-> log \o <<Acc("exists", safe_path), Acc("is_file", safe_path),
                           Acc("stat", safe_path)>>]
    ELSE IF StrLower(Suffix(safe_path)) \in {}
    THEN [result |-> [error |-> "File type not allowed"],
          log |-> log \o <<Acc("exists", safe_path), Acc("is_file", safe_path),
                           Acc("stat", safe_path)>>]
    ELSE ReadText(path, encoding, node,
                  log \o <<Acc("exists", safe_path), Acc("is_file", safe_path),
                           Acc("stat", safe_path), Acc("read_text", safe_path)>>)

\* read_file from `if not safe_path.exists()` on: node is what is found at
\* safe_path.
ReadNode(path, encoding, safe_path, node, log) ==
    IF node.type = "none"
    THEN [result |-> [error |-> "File does not exist"],
          log |-> log \o <<Acc("exists", safe_path)>>]
    ELSE IF node.type # "file"
    THEN [result |-> [error |-> "Path is not a file"],
          log |-> log \o <<Acc("exists", safe_path), Acc("is_file", safe_path)>>]
    ELSE IF node.size > max_file_size
    THEN [result |-> [error |-> "File too large"],
          log |-> log \o <<Acc("exists", safe_path), Acc("is_file", safe_path),
                           Acc("stat", safe_path)>>]
    ELSE IF StrLower(Suffix(safe_path)) \notin allowed_extensions
    THEN [result |-> [error |-> "File type not allowed"],
          log |-> log \o <<Acc("exists", safe_path), Acc("is_file", safe_path),
                           Acc("stat", safe_path)>>]
    ELSE ReadText(path, encoding, node,
                  log \o <<Acc("exists", safe_path), Acc("is_file", safe_path),
                           Acc("stat", safe_path), Acc("read_text", safe_path)>>)

\* ReadSafe naming the rejected path in the error.
ReadSafe_reason(w, path, encoding, sp, log) ==
    IF ~sp.ok THEN [result |-> [error |-> <<"Invalid or unsafe path", path>>], log |-> log]
    ELSE ReadNode(path, encoding, sp.path, Stat(w.fs, sp.path), log)

\* read_file from `if not safe_path` on.
ReadSafe(w, path, encoding, sp, log) ==
    IF ~sp.ok THEN [result |-> [error |-> "Invalid or unsafe path"], log |-> log]
    ELSE ReadNode(path, encoding, sp.path, Stat(w.fs, sp.path), log)

\* read_file(path, encoding): [result, log].
read_file(w, path, encoding) ==
    ReadSafe(w, path, encoding, get_safe_path(w, path), SandboxLog(w, path))

\* get_file_info testing that the path exists before asking the sandbox.
get_file_info_existsfirst(w, path) ==
    LET sp == get_safe_path(w, path)
        cand == CandidatePath(w, path.v)
        node == w.fs[Lookup(w.fs, cand).path]
    IN  IF path.t # "str"
        THEN [result |-> [error |-> "Invalid or unsafe path"], log |-> <<>>]
        ELSE IF ~Exists(w.fs, cand)
        THEN [result |-> [error |-> "Path does not exist"],
              log |-> <<Acc("exists", cand)>>]
        ELSE IF ~sp.ok
        THEN [result |-> [error |-> "Invalid or unsafe path"],
              log |-> <<Acc("exists", cand)>> \o SandboxLog(w, path)]
        ELSE [result |-> [path |-> path.v, name |-> PathName(cand),
                          type |-> IF node.type = "file" THEN "file" ELSE "directory",
                          size |-> node.size],
              log |-> <<Acc("exists", cand)>> \o SandboxLog(w, path)
                      \o <<Acc("stat", cand)>>]

\* get_file_info from `if not safe_path.exists()` on: node is what is found
\* at safe_path.
InfoNode(path, safe_path, node, log) ==
    IF node.type = "none"
    THEN [result |-> [error |-> "Path does not exist"],
          log |-> log \o <<Acc("exists", safe_path)>>]
    ELSE IF node.type = "file"
    THEN [result |-> [path |-> path.v, name |-> PathName(safe_path),
                      type |-> "file", size |-> node.size,
                      extension |-> Suffix(safe_path),
                      readable |-> StrLower(Suffix(safe_path)) \in allowed_extensions],
          log |-> log \o <<Acc("exists", safe_path), Acc("stat", safe_path),
                           Acc("is_dir", safe_path), Acc("is_file", safe_path)>>]
    ELSE [result |-> [path |-> path.v, name |-> PathName(safe_path),
                      type |-> "directory", size |-> node.size],
          log |-> log \o <<Acc("exists", safe_path), Acc("stat", safe_path),
                           Acc("is_dir", safe_path), Acc("is_file", safe_path)>>]

\* get_file_info from `if not safe_path` on.
InfoSafe(w, path, sp, log) ==
    IF ~sp.ok THEN [result |-> [error |-> "Invalid or unsafe path"], log |-> log]
    ELSE InfoNode(path, sp.path, Stat(w.fs, sp.path), log)

\* get_file_info(path): [result, log].
get_file_info(w, path) == InfoSafe(w, path, get_safe_path(w, path), SandboxLog(w, path))

\* The state search_files threads through its walk: the matches list, the
\* filesystem calls made, and the exception that is propagating ("" when
\* none is).
SearchStart(log) == [matches |-> <<>>, log |-> log, err |-> ""]

\* st with one more filesystem call.
Logged(st, acc) == [st EXCEPT !.log = Append(@, acc)]

\* st with one more match; is_dir() was called for it.  The log records
\* matches.append too, as the op "append".
Matched(w, st, item, isdir) ==
    [st EXCEPT !.matches = Append(@, [name |-> PathName(item),
                                      path |-> RelStr(RelativeTo(w, item).rel),
                                      type |-> IF isdir THEN "directory" ELSE "file"]),
               !.log = @ \o <<Acc("is_dir", item), Acc("append", item)>>]

RECURSIVE search_recursive(_, _, _, _, _)

\* SearchItem descending into a directory however many matches there are.
SearchItem_nocap(w, pattern, item, depth, safe, matched, isdir, st) ==
    CASE ~safe -> st
      [] safe /\ pattern.t # "str" -> [st EXCEPT !.err = "AttributeError"]
      [] safe /\ pattern.t = "str" /\ matched /\ ~RelativeTo(w, item).ok ->
            [st EXCEPT !.err = "ValueError"]
      [] safe /\ pattern.t = "str" /\ matched /\ RelativeTo(w, item).ok
            /\ isdir ->
            search_recursive(w, pattern, item, depth + 1,
                             Logged(Matched(w, st, item, isdir), Acc("is_dir", item)))
      [] safe /\ pattern.t = "str" /\ matched /\ RelativeTo(w, item).ok
            /\ ~isdir ->
            Logged(Matched(w, st, item, isdir), Acc("is_dir", item))
      [] safe /\ pattern.t = "str" /\ ~matched /\ isdir ->
            search_recursive(w, pattern, item, depth + 1, Logged(st, Acc("is_dir", item)))
      [] OTHER -> Logged(st, Acc("is_dir", item))

\* The body of the for loop of search_recursive for one entry: safe is
\* what is_safe_path said of it, matched whether the pattern is in its
\* name and isdir what is_dir() says.  lower() on a pattern that is not a
\* str raises AttributeError and relative_to may raise ValueError; the
\* loop descends `if item.is_dir() and len(matches) < 100`.
SearchItem(w, pattern, item, depth, safe, matched, isdir, st) ==
    CASE ~safe -> st
      [] safe /\ pattern.t # "str" -> [st EXCEPT !.err = "AttributeError"]
      [] safe /\ pattern.t = "str" /\ matched /\ ~RelativeTo(w, item).ok ->
            [st EXCEPT !.err = "ValueError"]
      [] safe /\ pattern.t = "str" /\ matched /\ RelativeTo(w, item).ok
            /\ isdir /\ Len(Matched(w, st, item, isdir).matches) < 100 ->
            search_recursive(w, pattern, item, depth + 1,
                             Logged(Matched(w, st, item, isdir), Acc("is_dir", item)))
      [] safe /\ pattern.t = "str" /\ matched /\ RelativeTo(w, item).ok
            /\ ~(isdir /\ Len(Matched(w, st, item, isdir).matches) < 100) ->
            Logged(Matched(w, st, item, isdir), Acc("is_dir", item))
      [] safe /\ pattern.t = "str" /\ ~matched /\ isdir /\ Len(st.matches) < 100 ->
            search_recursive(w, pattern, item, depth + 1, Logged(st, Acc("is_dir", item)))
      [] OTHER -> Logged(st, Acc("is_dir", item))

\* The for loop of search_recursive over the entries names[lo..hi] of
\* current_path, in order: the first half, then the second half on what
\* the first leaves (the loop is split in halves to keep the evaluation
\* shallow).  An exception ends the loop.
RECURSIVE SearchItems(_, _, _, _, _, _, _, _)
SearchItems(w, pattern, current_path, names, lo, hi, depth, st) ==
    CASE st.err # "" \/ lo > hi -> st
      [] st.err = "" /\ lo = hi ->
            SearchItem(w, pattern, Append(current_path, names[lo]), depth,
                       is_safe_path(w, Append(current_path, names[lo])),
                       Contains(StrLower(names[lo]), StrLower(pattern.v)),
                       IsDir(w.fs, Append(current_path, names[lo])),
                       Logged(st, Acc("resolve", Append(current_path, names[lo]))))
      [] OTHER ->
            SearchItems(w, pattern, current_path, names, (lo + hi) \div 2 + 1, hi, depth,
                        SearchItems(w, pattern, current_path, names,
                                    lo, (lo + hi) \div 2, depth, st))

\* SearchDir with PermissionError propagating like any other exception.
SearchDir_propagate(w, pattern, current_path, depth, it, st) ==
    CASE it.err # "" -> [st EXCEPT !.err = it.err]
      [] OTHER -> SearchItems(w, pattern, current_path, it.names, 1, Len(it.names), depth, st)

\* search_recursive from `for item in current_path.iterdir()` on: it is
\* what iterdir() gave.  PermissionError ends the loop of this directory
\* only; any other exception propagates.
SearchDir(w, pattern, current_path, depth, it, st) ==
    CASE it.err = "PermissionError" -> st
      [] it.err \notin {"", "PermissionError"} -> [st EXCEPT !.err = it.err]
      [] OTHER -> SearchItems(w, pattern, current_path, it.names, 1, Len(it.names), depth, st)

\* search_recursive with the depth test off by one.
search_recursive_deeper(w, pattern, current_path, depth, st) ==
    CASE depth > 6 -> st
      [] OTHER -> SearchDir(w, pattern, current_path, depth, IterDir(w, current_path),
                            Logged(st, Acc("iterdir", current_path)))

\* search_recursive(current_path, depth)
search_recursive(w, pattern, current_path, depth, st) ==
    CASE depth > 5 -> st
      [] OTHER -> SearchDir(w, pattern, current_path, depth, IterDir(w, current_path),
                            Logged(st, Acc("iterdir", current_path)))

\* matches[:100] without the slice.
FirstN_all(s, n) == s

\* matches[:100]
FirstN(s, n) == IF Len(s) <= n THEN s ELSE SubSeq(s, 1, n)

\* search_files after search_recursive(safe_path): st is what the walk
\* left.
SearchResult(pattern, path, st) ==
    IF st.err # "" THEN [result |-> [error |-> st.err], log |-> st.log]
    ELSE [result |-> [pattern |-> pattern, search_path |-> path.v,
                      matches |-> FirstN(st.matches, 100)],
          log |-> st.log]

\* search_files from `if not safe_path` on.
SearchSafe(w, pattern, path, sp, log) ==
    CASE ~sp.ok -> [result |-> [error |-> "Invalid or unsafe path"], log |-> log]
      [] sp.ok /\ ~Exists(w.fs, sp.path) ->
            [result |-> [error |-> "Path does not exist"],
             log |-> log \o <<Acc("exists", sp.path)>>]
      [] OTHER ->
            SearchResult(pattern, path,
                         search_recursive(w, pattern, sp.path, 0,
                                          SearchStart(log \o <<Acc("exists", sp.path)>>)))

\* search_files(pattern, path): [result, log].
search_files(w, pattern, path) ==
    SearchSafe(w, pattern, path, get_safe_path(w, path), SandboxLog(w, path))

----------------------------------------------------------------------------
(* handle_request                                                          *)

\* A JSON member that may be missing from its object.
Absent == [t |-> "absent", v |-> <<>>]

\* arguments.get(key): None when the member is missing.
ArgGet(a) == IF a.t = "absent" THEN PyNone ELSE a

\* arguments.get(key, default)
ArgGetDefault(a, default) == IF a.t = "absent" THEN PyStr(default) ELSE a

\* arguments.get("encoding", "utf-8"), the member being a codec name.
EncodingGet(e) == IF e = "<absent>" THEN "utf-8" ELSE e

\* request.get("id"): None, which json.dumps writes as null, when missing.
IdGet(id) == IF id = "<absent>" THEN "null" ELSE id

\* params.get("arguments", {})
NoArguments == [t |-> "obj", path |-> Absent, pattern |-> Absent, encoding |-> "<absent>"]
ArgumentsGet(params) ==
    IF params.arguments.t = "absent" THEN NoArguments ELSE params.arguments

ToolNames == {"list_directory", "read_file", "search_files", "get_file_info"}

\* The branch of tools/call that runs the named operation: [result, log].
CallTool(w, tool_name, arguments) ==
    CASE tool_name = "list_directory" ->
            list_directory(w, ArgGetDefault(arguments.path, <<".">>))
      [] tool_name = "read_file" ->
            read_file(w, ArgGet(arguments.path), EncodingGet(arguments.encoding))
      [] tool_name = "search_files" ->
            search_files(w, ArgGet(arguments.pattern), ArgGetDefault(arguments.path, <<".">>))
      [] tool_name = "get_file_info" -> get_file_info(w, ArgGet(arguments.path))

\* Failure losing the id of the request.
Failure_noid(id, code, message) ==
    [jsonrpc |-> "2.0", id |-> "null", error |-> [code |-> code, message |-> message]]

Success(id, result) == [jsonrpc |-> "2.0", id |-> id, result |-> result]
Failure(id, code, message) ==
    [jsonrpc |-> "2.0", id |-> id, error |-> [code |-> code, message |-> message]]

\* `return None`
NoResponse == [none |-> TRUE]

\* What a call of handle_request comes to: the value returned, or raised
\* = TRUE when an exception leaves it; log is the filesystem calls made.
Returned(response, log) == [raised |-> FALSE, response |-> response, log |-> log]
Raised == [raised |-> TRUE, response |-> NoResponse, log |-> <<>>]

\* ToolResponse with an operation's failure raised out of the operation
\* and answered by the except clause of handle_request.
ToolResponse_raise(request_id, r) ==
    IF "error" \in DOMAIN r.result
    THEN Returned(Failure(request_id, -32603, r.result.error), r.log)
    ELSE Returned(Success(request_id, [content |-> <<[type |-> "text", text |-> r.result]>>]),
                  r.log)

\* The response of tools/call carrying the operation's result r.
ToolResponse(request_id, r) ==
    Returned(Success(request_id, [content |-> <<[type |-> "text", text |-> r.result]>>]),
             r.log)

\* Dispatch answering an unknown tool as an internal error.
Dispatch_toolinternal(w, method, params, request_id) ==
    CASE method = "initialize" ->
            Returned(Success(request_id,
                             [protocolVersion |-> "2024-11-05",
                              serverInfo |-> [name |-> "filesystem", version |-> "1.0.0"]]),
                     <<>>)
      [] method = "initialized" -> Returned(NoResponse, <<>>)
      [] method = "tools/list" -> Returned(Success(request_id, [tools |-> ToolNames]), <<>>)
      [] method = "tools/call" /\ params.t # "obj" ->
            Returned(Failure(request_id, -32603, "AttributeError"), <<>>)
      [] method = "tools/call" /\ params.t = "obj" /\ params.name \notin ToolNames ->
            Returned(Failure(request_id, -32603, "Unknown tool"), <<>>)
      [] method = "tools/call" /\ params.t = "obj" /\ params.name \in ToolNames
            /\ ArgumentsGet(params).t # "obj" ->
            Returned(Failure(request_id, -32603, "AttributeError"), <<>>)
      [] method = "tools/call" /\ params.t = "obj" /\ params.name \in ToolNames
            /\ ArgumentsGet(params).t = "obj" ->
            ToolResponse(request_id, CallTool(w, params.name, ArgumentsGet(params)))
      [] OTHER -> Returned(Failure(request_id, -32601, "Unknown method"), <<>>)

\* The body of the try statement of handle_request; params.get and
\* arguments.get raise AttributeError on a value that is not a dict, which
\* the except clause turns into a -32603 response.
Dispatch(w, method, params, request_id) ==
    CASE method = "initialize" ->
            Returned(Success(request_id,
                             [protocolVersion |-> "2024-11-05",
                              serverInfo |-> [name |-> "filesystem", version |-> "1.0.0"]]),
                     <<>>)
      [] method = "initialized" -> Returned(NoResponse, <<>>)
      [] method = "tools/list" -> Returned(Success(request_id, [tools |-> ToolNames]), <<>>)
      [] method = "tools/call" /\ params.t # "obj" ->
            Returned(Failure(request_id, -32603, "AttributeError"), <<>>)
      [] method = "tools/call" /\ params.t = "obj" /\ params.name \notin ToolNames ->
            Returned(Failure(request_id, -32601, "Unknown tool"), <<>>)
      [] method = "tools/call" /\ params.t = "obj" /\ params.name \in ToolNames
            /\ ArgumentsGet(params).t # "obj" ->
            Returned(Failure(request_id, -32603, "AttributeError"), <<>>)
      [] method = "tools/call" /\ params.t = "obj" /\ params.name \in ToolNames
            /\ ArgumentsGet(params).t = "obj" ->
            ToolResponse(request_id, CallTool(w, params.name, ArgumentsGet(params)))
      [] OTHER -> Returned(Failure(request_id, -32601, "Unknown method"), <<>>)

\* request.get("params", {})
NoParams == [t |-> "obj", name |-> "<absent>", arguments |-> Absent]
ParamsGet(request) == IF request.params.t = "absent" THEN NoParams ELSE request.params

\* handle_request(request): msg is the value json.loads returned, a dict
\* (isobj) or a value of another JSON type, on which request.get raises
\* AttributeError before the try statement is entered.
handle_request(w, msg) ==
    IF ~msg.isobj THEN Raised
    ELSE Dispatch(w, msg.request.method, ParamsGet(msg.request), IdGet(msg.request.id))

----------------------------------------------------------------------------
(* The filesystem layout and the servers of the model                      *)

n_r == <<"r">>
n_rx == <<"r","x">>
n_o == <<"o">>
n_ex == <<"e","x">>
n_a_txt == <<"a",".","t","x","t">>
n_B_txt == <<"B",".","t","x","t">>
n_sub == <<"s","u","b">>
n_c_md == <<"c",".","m","d">>
n_git == <<".","g","i","t">>
n_cfg == <<"c","f","g">>
n_Env == <<".","E","n","v">>
n_out == <<"o","u","t">>
n_sib == <<"s","i","b">>
n_up == <<"u","p">>
n_cy == <<"c","y">>
n_d == <<"d">>
n_p_txt == <<"p",".","t","x","t">>
n_q_txt == <<"q",".","t","x","t">>
n_big_txt == <<"b","i","g",".","t","x","t">>
n_x_exe == <<"x",".","e","x","e">>
n_l_txt == <<"l",".","t","x","t">>
n_bin_txt == <<"b","i","n",".","t","x","t">>
n_np == <<"n","p">>
n_nope == <<"n","o","p","e">>
n_cap_txt == <<"c","a","p",".","t","x","t">>
n_k_exe == <<"k",".","e","x","e">>
n_U_TXT == <<"U",".","T","X","T">>
n_lp == <<"l","p">>
n_m == <<"m">>
n_f == <<"f">>
n_zf == <<"z","f">>

\* The names of the files of /m: "f" and "f00" .. "f99", one more than the
\* 100 matches a search returns.
ManyNames ==
    {n_f} \cup {<<"f", a, b>> : a, b \in {"0","1","2","3","4","5","6","7","8","9"}}

\* /r/d, /r/d/d, ...: the directory k levels below /r.
Chain(k) == <<n_r>> \o [i \in 1..k |-> n_d]

\* The layout as a set of <<path, node>>.  /r is the working directory of
\* the server; /rx is a sibling whose name starts with "r"; /o is
\* elsewhere.  /r/out and /r/sib are links to /o and /rx; /r/cy/up is a
\* link to /r/cy, the directory it is in.  /r/cap.txt has exactly
\* max_file_size bytes and /r/big.txt one more; /r/l.txt is a link to
\* x.exe, /r/k.exe a link to ex/a.txt and /r/lp a link to itself, which
\* resolve() fails on.  /m holds the files ManyNames
\* and the directory zf.
LayoutEntries ==
    { <<<<>>, Dir>>,
      <<<<n_r>>, Dir>>,
      <<<<n_r, n_ex>>, Dir>>,
      <<<<n_r, n_ex, n_a_txt>>, File(3, "ex/a.txt")>>,
      <<<<n_r, n_ex, n_B_txt>>, File(4, "ex/B.txt")>>,
      <<<<n_r, n_ex, n_sub>>, Dir>>,
      <<<<n_r, n_ex, n_sub, n_c_md>>, File(5, "ex/sub/c.md")>>,
      <<<<n_r, n_cy>>, Dir>>,
      <<<<n_r, n_cy, n_up>>, Link(PathStr(<<n_r, n_cy>>))>>,
      <<<<n_r, n_git>>, Dir>>,
      <<<<n_r, n_git, n_cfg>>, File(6, ".git/cfg")>>,
      <<<<n_r, n_Env>>, File(7, ".Env")>>,
      <<<<n_r, n_out>>, Link(PathStr(<<n_o>>))>>,
      <<<<n_r, n_sib>>, Link(PathStr(<<n_rx>>))>>,
      <<<<n_r, n_big_txt>>, File(max_file_size + 1, "big.txt")>>,
      <<<<n_r, n_cap_txt>>, File(max_file_size, "cap.txt")>>,
      <<<<n_r, n_k_exe>>, Link(RelStr(<<n_ex, n_a_txt>>))>>,
      <<<<n_r, n_U_TXT>>, File(12, "U.TXT")>>,
      <<<<n_r, n_lp>>, Link(n_lp)>>,
      <<<<n_r, n_x_exe>>, File(8, "x.exe")>>,
      <<<<n_r, n_l_txt>>, Link(n_x_exe)>>,
      <<<<n_r, n_bin_txt>>, BinFile(9, "bin.txt")>>,
      <<<<n_r, n_np>>, NoReadDir>>,
      <<<<n_r, n_np, n_a_txt>>, File(2, "np/a.txt")>>,
      <<<<n_rx>>, Dir>>,
      <<<<n_rx, n_p_txt>>, File(10, "/rx/p.txt")>>,
      <<<<n_o>>, Dir>>,
      <<<<n_o, n_q_txt>>, File(11, "/o/q.txt")>>,
      <<<<n_m>>, Dir>>,
      <<<<n_m, n_zf>>, Dir>>,
      <<<<n_m, n_zf, n_f>>, File(13, "/m/zf/f")>> }
    \cup { <<<<n_m, n>>, File(14, "/m/f")>> : n \in ManyNames }
    \cup { <<Chain(k), Dir>> : k \in 1..ChainDepth }
    \cup { <<Append(Chain(ChainDepth), n_a_txt), File(1, "deep")>> }

Layout ==
    [p \in {e[1] : e \in LayoutEntries} |->
        (CHOOSE e \in LayoutEntries : e[1] = p)[2]]

\* __init__: root_path is the working directory the server starts in.
Server(root, rev) == [root_path |-> root, fs |-> Layout, listdir_rev |-> rev]

Worlds == { Server(root, rev) : root \in {<<n_r>>, <<n_r, n_git>>}, rev \in BOOLEAN }

\* The servers started in /m, the directory of many files.
ManyWorlds == { Server(<<n_m>>, rev) : rev \in BOOLEAN }

----------------------------------------------------------------------------
(* The inputs of the model                                                 *)

\* Path strings, relative to the working directory or absolute.
PathStrings ==
    { <<>>, <<".">>, DotDot, <<"/">>,
      RelStr(<<n_ex>>), RelStr(<<n_ex, n_a_txt>>), RelStr(<<n_ex, n_B_txt>>),
      RelStr(<<n_ex, n_sub>>), RelStr(<<n_ex, DotDot, n_ex, n_a_txt>>),
      RelStr(<<DotDot, n_rx>>), RelStr(<<DotDot, n_rx, n_p_txt>>),
      RelStr(<<DotDot, n_r, n_ex, n_a_txt>>),
      PathStr(<<n_rx>>), PathStr(<<n_rx, n_p_txt>>), PathStr(<<n_o, n_q_txt>>),
      PathStr(<<n_r, n_ex>>), PathStr(<<n_r, DotDot, n_r, n_ex>>),
      RelStr(<<n_out>>), RelStr(<<n_out, n_q_txt>>),
      RelStr(<<n_sib>>), RelStr(<<n_sib, n_p_txt>>),
      RelStr(<<n_cy>>), RelStr(<<n_cy, n_up, n_up>>),
      RelStr(<<n_cy, n_up, DotDot, n_ex, n_B_txt>>),
      RelStr(<<n_git>>), RelStr(<<n_git, n_cfg>>), RelStr(<<n_cfg>>), RelStr(<<n_Env>>),
      RelStr(<<n_d>>), RelStr(<<n_d, n_d>>), RelStr(<<n_nope>>),
      RelStr(<<n_big_txt>>), RelStr(<<n_x_exe>>), RelStr(<<n_l_txt>>),
      RelStr(<<n_bin_txt>>), RelStr(<<n_np>>),
      RelStr(<<n_cap_txt>>), RelStr(<<n_k_exe>>), RelStr(<<n_U_TXT>>),
      RelStr(<<DotDot, <<"e","t","c">>, <<"p","a","s","s","w","d">>>>), RelStr(<<n_zf>>), RelStr(<<n_lp>>) }

\* The "path" member of arguments: a str, missing, or not a str.
PathArgs == {PyStr(s) : s \in PathStrings} \cup {Absent, PyNone, PyOther}

\* The "pattern" member of arguments.
PatternArgs ==
    {PyStr(<<"a">>), PyStr(<<".","T","X","T">>), PyStr(<<"d">>), PyStr(<<"z","z">>),
     PyStr(<<"F">>), Absent, PyOther}

EncodingArgs == {"<absent>", "utf-8", "latin-1", "bogus", "other"}

Arguments(path, pattern, encoding) ==
    [t |-> "obj", path |-> path, pattern |-> pattern, encoding |-> encoding]

ToolCallParams(name, arguments) == [t |-> "obj", name |-> name, arguments |-> arguments]

Request(method, params, id) ==
    [isobj |-> TRUE, request |-> [method |-> method, params |-> params, id |-> id]]

\* The arguments each tool is called with.
ToolArguments(name) ==
    IF name = "read_file"
    THEN {Arguments(p, Absent, e) : p \in PathArgs, e \in EncodingArgs}
    ELSE IF name = "search_files"
    THEN {Arguments(p, q, "<absent>") : p \in PathArgs, q \in PatternArgs}
    ELSE {Arguments(p, Absent, "<absent>") : p \in PathArgs}

\* tools/call requests, one per tool and arguments.
ToolCalls ==
    UNION { {Request("tools/call", ToolCallParams(name, a), "1") : a \in ToolArguments(name)} :
              name \in ToolNames }

NoMsg == [isobj |-> FALSE, request |-> [method |-> "", params |-> Absent, id |-> ""]]

----------------------------------------------------------------------------
(* SpecOps: one tools/call request handled by a server.                    *)

NoLast == [kind |-> "none", msg |-> NoMsg, out |-> Returned(NoResponse, <<>>), wrote |-> FALSE]

InitOps ==
    /\ world \in Worlds \cup ManyWorlds
    /\ pc = "ready"
    /\ nread = 0
    /\ nreq = 0
    /\ nbad = 0
    /\ output = <<>>
    /\ last = NoLast

Call(msg) ==
    /\ pc = "ready"
    /\ pc' = "called"
    /\ last' = [kind |-> "json", msg |-> msg, out |-> handle_request(world, msg),
                wrote |-> FALSE]
    /\ UNCHANGED <<world, nread, nreq, nbad, output>>

NextOps == \E msg \in ToolCalls : Call(msg)

SpecOps == InitOps /\ [][NextOps]_vars

----------------------------------------------------------------------------
(* Spec: run(), the transport loop.                                        *)

Methods == {"initialize", "initialized", "tools/list", "tools/call", "foo", "<absent>"}

\* The "id" member: a number, a string, or missing.
Ids == {"7", "s", "<absent>"}

OtherParams == [t |-> "other", name |-> "<absent>", arguments |-> Absent]
OtherArguments == [t |-> "other", path |-> Absent, pattern |-> Absent, encoding |-> "<absent>"]

\* The "params" member of the tools/call lines: missing, not an object,
\* naming no tool, with arguments that are not an object, and calls of
\* the four tools.
LineParams ==
    { Absent, OtherParams,
      ToolCallParams("nope", Absent),
      ToolCallParams("read_file", OtherArguments),
      ToolCallParams("read_file",
                     Arguments(PyStr(RelStr(<<n_ex, n_a_txt>>)), Absent, "<absent>")),
      ToolCallParams("read_file",
                     Arguments(PyStr(RelStr(<<DotDot, n_rx, n_p_txt>>)), Absent, "<absent>")),
      ToolCallParams("list_directory", Absent),
      ToolCallParams("search_files", Arguments(PyStr(RelStr(<<n_ex>>)), Absent, "<absent>")),
      ToolCallParams("get_file_info",
                     Arguments(PyStr(RelStr(<<n_out>>)), Absent, "<absent>")) }

\* The lines that parse as JSON: objects, and one value that is not an
\* object (a list, a number, a string, null).
JsonLines ==
    {Request(m, Absent, id) : m \in Methods \ {"tools/call"}, id \in Ids}
    \cup {Request("tools/call", p, id) : p \in LineParams, id \in {"7", "<absent>"}}
    \cup {NoMsg}

\* `if response:` -- a line is printed when handle_request returned a dict.
Printed(out) == ~out.raised /\ out.response # NoResponse

IsNotification(msg) == msg.isobj /\ msg.request.method = "initialized"

Init ==
    /\ world \in Worlds
    /\ pc = "running"
    /\ nread = 0
    /\ nreq = 0
    /\ nbad = 0
    /\ output = <<>>
    /\ last = NoLast

\* readline() returns "": the input has ended.
ReadEOF ==
    /\ pc = "running"
    /\ pc' = "done"
    /\ last' = [kind |-> "eof", msg |-> NoMsg, out |-> Returned(NoResponse, <<>>),
                wrote |-> FALSE]
    /\ UNCHANGED <<world, nread, nreq, nbad, output>>

\* A line that is empty once stripped: `continue`.
ReadBlank ==
    /\ pc = "running"
    /\ nread < MaxLines
    /\ nread' = nread + 1
    /\ last' = [kind |-> "blank", msg |-> NoMsg, out |-> Returned(NoResponse, <<>>),
                wrote |-> FALSE]
    /\ UNCHANGED <<world, pc, nreq, nbad, output>>

\* The except clause of run() leaving the loop.
ReadBadJson_break ==
    /\ pc = "running"
    /\ nread < MaxLines
    /\ nread' = nread + 1
    /\ nbad' = nbad + 1
    /\ pc' = "done"
    /\ last' = [kind |-> "bad", msg |-> NoMsg, out |-> Returned(NoResponse, <<>>),
                wrote |-> FALSE]
    /\ UNCHANGED <<world, nreq, output>>

\* json.loads raises JSONDecodeError, which is logged.
ReadBadJson ==
    /\ pc = "running"
    /\ nread < MaxLines
    /\ nread' = nread + 1
    /\ nbad' = nbad + 1
    /\ last' = [kind |-> "bad", msg |-> NoMsg, out |-> Returned(NoResponse, <<>>),
                wrote |-> FALSE]
    /\ UNCHANGED <<world, pc, nreq, output>>

\* ReadRequest refusing every request that comes before the first
\* initialize.
ReadRequest_strict(msg) ==
    /\ pc = "running"
    /\ nread < MaxLines
    /\ \E out \in {IF nreq = 0 /\ msg.isobj /\ msg.request.method # "initialize"
                    THEN Returned(Failure(IdGet(msg.request.id), -32002, "Not initialized"), <<>>)
                    ELSE handle_request(world, msg)} :
          /\ nread' = nread + 1
          /\ nreq' = IF IsNotification(msg) THEN nreq ELSE nreq + 1
          /\ output' = IF Printed(out) THEN Append(output, out.response) ELSE output
          /\ last' = [kind |-> "json", msg |-> msg, out |-> out, wrote |-> Printed(out)]
          /\ UNCHANGED <<world, pc, nbad>>

\* ReadRequest with an exception out of handle_request leaving the loop.
ReadRequest_crash(msg) ==
    /\ pc = "running"
    /\ nread < MaxLines
    /\ \E out \in {handle_request(world, msg)} :
          /\ nread' = nread + 1
          /\ nreq' = IF IsNotification(msg) THEN nreq ELSE nreq + 1
          /\ output' = IF Printed(out) THEN Append(output, out.response) ELSE output
          /\ last' = [kind |-> "json", msg |-> msg, out |-> out, wrote |-> Printed(out)]
          /\ pc' = IF out.raised THEN "done" ELSE pc
          /\ UNCHANGED <<world, nbad>>

\* ReadRequest writing the response ahead of the lines already written.
ReadRequest_prepend(msg) ==
    /\ pc = "running"
    /\ nread < MaxLines
    /\ \E out \in {handle_request(world, msg)} :
          /\ nread' = nread + 1
          /\ nreq' = IF IsNotification(msg) THEN nreq ELSE nreq + 1
          /\ output' = IF Printed(out) THEN <<out.response>> \o output ELSE output
          /\ last' = [kind |-> "json", msg |-> msg, out |-> out, wrote |-> Printed(out)]
          /\ UNCHANGED <<world, pc, nbad>>

\* A line that parses: handle_request, then print the response if there
\* is one; an exception out of handle_request is logged.
ReadRequest(msg) ==
    /\ pc = "running"
    /\ nread < MaxLines
    /\ \E out \in {handle_request(world, msg)} :
          /\ nread' = nread + 1
          /\ nreq' = IF IsNotification(msg) THEN nreq ELSE nreq + 1
          /\ output' = IF Printed(out) THEN Append(output, out.response) ELSE output
          /\ last' = [kind |-> "json", msg |-> msg, out |-> out, wrote |-> Printed(out)]
          /\ UNCHANGED <<world, pc, nbad>>

Next ==
    \/ ReadEOF
    \/ ReadBlank
    \/ ReadBadJson
    \/ \E msg \in JsonLines : ReadRequest(msg)

Spec == Init /\ [][Next]_vars

\* The loop on an input that ends: run() is always waiting in readline()
\* for the line it handles next, and after the last line of the input
\* readline() returns "".
SpecLive == Init /\ [][Next]_vars /\ WF_vars(ReadEOF)

----------------------------------------------------------------------------
(* An operation beside another process that changes the filesystem         *)

\* The calls of read_file and list_directory with a str path.
RaceCalls ==
    {Request("tools/call", ToolCallParams(name, Arguments(PyStr(s), Absent, "<absent>")), "1") :
        name \in {"read_file", "list_directory"}, s \in PathStrings}

\* The links below /r and what the other process may point one to: a file
\* and a directory outside the root, and a file the denylist matches.
RaceLinks == {p \in DOMAIN Layout : IsPrefix(<<n_r>>, p) /\ Layout[p].type = "link"}
RaceTargets == {PathStr(<<n_o, n_q_txt>>), PathStr(<<n_o>>), PathStr(<<n_r, n_git, n_cfg>>)}

InitRace ==
    /\ world \in Worlds
    /\ pc = "ready"
    /\ nread = 0
    /\ nreq = 0
    /\ nbad = 0
    /\ output = <<>>
    /\ last = NoLast

\* The first statement of the operation: safe_path = get_safe_path(path),
\* kept in last with the call it made.
Check(msg) ==
    /\ pc = "ready"
    /\ pc' = "checked"
    /\ last' = [kind |-> "checked", msg |-> msg,
                out |-> Returned(NoResponse, SandboxLog(world, msg.request.params.arguments.path)),
                wrote |-> FALSE,
                safe_path |-> get_safe_path(world, msg.request.params.arguments.path)]
    /\ UNCHANGED <<world, nread, nreq, nbad, output>>

\* Another process points a link somewhere else while the operation is
\* between get_safe_path and its next statement.
Retarget(link, target) ==
    /\ pc = "checked"
    /\ pc' = "moved"
    /\ world' = [world EXCEPT !.fs = [@ EXCEPT ![link] = Link(target)]]
    /\ UNCHANGED <<nread, nreq, nbad, output, last>>

\* The rest of the operation, from `if not safe_path` on, with the
\* safe_path it has on the filesystem as it is now, and the response.
Access ==
    /\ pc \in {"checked", "moved"}
    /\ pc' = "called"
    /\ last' = [kind |-> "json", msg |-> last.msg,
                out |-> ToolResponse(
                    IdGet(last.msg.request.id),
                    IF last.msg.request.params.name = "read_file"
                    THEN ReadSafe(world, last.msg.request.params.arguments.path, "utf-8",
                                  last.safe_path, last.out.log)
                    ELSE ListSafe(world, last.msg.request.params.arguments.path,
                                  last.safe_path, last.out.log)),
                wrote |-> FALSE]
    /\ UNCHANGED <<world, nread, nreq, nbad, output>>

NextRace ==
    \/ \E msg \in RaceCalls : Check(msg)
    \/ \E link \in RaceLinks, target \in RaceTargets : Retarget(link, target)
    \/ Access

SpecRace == InitRace /\ [][NextRace]_vars

----------------------------------------------------------------------------
(* What the claims speak of                                                *)

LastRequest == last.msg.request

\* The line handled last was a tools/call request that ran an operation.
IsToolCall ==
    /\ last.kind = "json"
    /\ last.msg.isobj
    /\ LastRequest.method = "tools/call"
    /\ ParamsGet(LastRequest).t = "obj"
    /\ ParamsGet(LastRequest).name \in ToolNames
    /\ ArgumentsGet(ParamsGet(LastRequest)).t = "obj"

LastTool == ParamsGet(LastRequest).name
LastArguments == ArgumentsGet(ParamsGet(LastRequest))

\* The path the operation was called with.
LastPath ==
    IF LastTool \in {"list_directory", "search_files"}
    THEN ArgGetDefault(LastArguments.path, <<".">>)
    ELSE ArgGet(LastArguments.path)

\* The operation's result, as carried in the response, and its calls.
LastResult == last.out.response.result.content[1].text
LastLog == last.out.log

IsError(result) == "error" \in DOMAIN result

\* The canonical form of a candidate path string: its parts and its str.
Canonical(s) == Resolve(world.fs, CandidatePath(world, s)).path
CanonicalStr(s) == PathStr(Canonical(s))

\* The candidate handled last is a str whose canonical form does not start
\* with the root's string form.
LastOutsideRoot ==
    /\ LastPath.t = "str"
    /\ ~StartsWith(CanonicalStr(LastPath.v), PathStr(world.root_path))

\* C1: a candidate whose canonical form does not start with the root's
\* string form is rejected by get_safe_path, and each of the four
\* operations called with it returns an error result.
Thm_C1 ==
    (IsToolCall /\ LastOutsideRoot)
        => /\ ~get_safe_path(world, LastPath).ok
           /\ IsError(LastResult)

\* C1 happens: read_file was called with a path that resolves, through the
\* link /r/out, to /o/q.txt, and returned an error.
Wit_C1 ==
    /\ IsToolCall /\ LastOutsideRoot
    /\ LastTool = "read_file"
    /\ Canonical(LastPath.v) = <<n_o, n_q_txt>>
    /\ IsError(LastResult)

\* The denylist as the claim gives it.
C2_Denylist ==
    { <<".",".">>, <<"_","_","p","y","c","a","c","h","e","_","_">>, <<".","g","i","t">>,
      <<".","e","n","v">>, <<"n","o","d","e","_","m","o","d","u","l","e","s">>,
      <<".","s","s","h">>, <<".","a","w","s">>, <<".","d","o","c","k","e","r">>,
      <<"p","a","s","s","w","o","r","d","s">>, <<"s","e","c","r","e","t","s">> }

LastDenylisted ==
    /\ LastPath.t = "str"
    /\ \E p \in C2_Denylist : Contains(StrLower(CanonicalStr(LastPath.v)), p)

\* C2: a candidate whose canonical form, lower-cased, contains a
\* denylisted substring anywhere (the root's own prefix included) is
\* rejected, also when it lies under the root.
Thm_C2 ==
    (IsToolCall /\ LastDenylisted)
        => /\ ~get_safe_path(world, LastPath).ok
           /\ LastResult = [error |-> "Invalid or unsafe path"]

\* C2 happens: /r/.Env lies under the root /r, matches ".env" only once
\* lower-cased, and was rejected.
Wit_C2 ==
    /\ IsToolCall /\ LastDenylisted
    /\ world.root_path = <<n_r>>
    /\ Canonical(LastPath.v) = <<n_r, n_Env>>
    /\ LastResult = [error |-> "Invalid or unsafe path"]

\* C3: whenever an operation returns content, entries or metadata for a
\* path, the path resolves to the root or to a descendant of the root in
\* the directory tree.
Cex_C3 ==
    (IsToolCall /\ ~IsError(LastResult))
        => IsPrefix(world.root_path, Canonical(LastPath.v))

\* C4: each operation calls the sandbox before anything else, and when the
\* sandbox rejects the path it returns the error result having made no
\* filesystem call but the sandbox's own resolve().
Thm_C4 ==
    IsToolCall
        => /\ LastPath.t = "str"
                => /\ LastLog # <<>>
                   /\ LastLog[1] = Acc("resolve", CandidatePath(world, LastPath.v))
           /\ ~get_safe_path(world, LastPath).ok
                => /\ LastResult = [error |-> "Invalid or unsafe path"]
                   /\ \A i \in 1..Len(LastLog) :
                         LastLog[i].op = "resolve" /\ i = 1

\* C4 happens: list_directory was called with a path the sandbox rejects
\* although a directory exists there, and made the one call.
Wit_C4 ==
    /\ IsToolCall
    /\ LastTool = "list_directory"
    /\ LastPath.t = "str"
    /\ ~get_safe_path(world, LastPath).ok
    /\ IsDir(world.fs, CandidatePath(world, LastPath.v))
    /\ Len(LastLog) = 1

\* A response with error code -32603.
InternalError(response) ==
    "error" \in DOMAIN response /\ response.error.code = -32603

\* The id a response to the request handled last must carry: the
\* request's, null when it has none.
ExpectedId == IF LastRequest.id = "<absent>" THEN "null" ELSE LastRequest.id

\* C5: every exception raised while a parsed message is dispatched ends in
\* a printed -32603 response carrying the request's id.
Cex_C5 ==
    (last.kind = "json" /\ (last.out.raised \/ InternalError(last.out.response)))
        => /\ last.wrote
           /\ InternalError(last.out.response)
           /\ last.msg.isobj => last.out.response.id = ExpectedId

\* C6: the number of output lines equals the number of request lines that
\* are not notifications.
Cex_C6 == Len(output) = nreq

\* C7: every response printed carries the id of the request that caused
\* it, null when the request has none.
Thm_C7 == last.wrote => last.out.response.id = ExpectedId

\* C7 happens: a request without an id raised in dispatch and got a -32603
\* response with id null.
Wit_C7 ==
    /\ last.wrote
    /\ LastRequest.id = "<absent>"
    /\ InternalError(last.out.response)
    /\ last.out.response.id = "null"

\* C8: reading a line that does not parse as JSON prints nothing and
\* leaves the loop running with the server as it was, so what is printed
\* afterwards is what would be printed without the line.
Thm_C8 ==
    [][(last'.kind = "bad" /\ nread' = nread + 1)
          => (output' = output /\ pc' = "running" /\ world' = world /\ nreq' = nreq)]_vars

\* C8 happens: a bad line followed by a valid request gave one response.
Wit_C8 ==
    /\ nread = 2
    /\ nbad = 1
    /\ last.kind = "json"
    /\ last.wrote
    /\ Len(output) = 1

\* list_directory returned items.
IsListing == IsToolCall /\ LastTool = "list_directory" /\ ~IsError(LastResult)

ItemNames(items) == [i \in 1..Len(items) |-> items[i].name]

\* The directory of the claim's example: a.txt, B.txt and sub/.
IsExample(items) == {items[i].name : i \in 1..Len(items)} = {n_a_txt, n_B_txt, n_sub}

\* Directories before files.
DirsFirst(items) ==
    \A i, j \in 1..Len(items) :
        i < j => (items[i].type = "directory" \/ items[j].type = "file")

\* C9 as claimed: directories before files, each group alphabetical, which
\* the example takes without regard to case: sub, a.txt, B.txt.
Cex_C9 ==
    IsListing
        => LET items == LastResult.items
           IN  /\ DirsFirst(items)
               /\ \A i, j \in 1..Len(items) :
                     (i < j /\ items[i].type = items[j].type)
                        => StrLess(StrLower(items[i].name), StrLower(items[j].name))
               /\ IsExample(items) => ItemNames(items) = <<n_sub, n_a_txt, n_B_txt>>

\* C9 amended: directories before files, each group in ascending order of
\* the names' code points (upper case before lower case): sub, B.txt, a.txt.
Thm_C9 ==
    IsListing
        => LET items == LastResult.items
           IN  /\ DirsFirst(items)
               /\ \A i, j \in 1..Len(items) :
                     (i < j /\ items[i].type = items[j].type)
                        => StrLess(items[i].name, items[j].name)
               /\ IsExample(items) => ItemNames(items) = <<n_sub, n_B_txt, n_a_txt>>

\* C9 happens: the example directory was listed.
Wit_C9 ==
    /\ IsListing
    /\ IsExample(LastResult.items)
    /\ ItemNames(LastResult.items) = <<n_sub, n_B_txt, n_a_txt>>

\* C10: search_files enumerates no directory more than 5 levels below the
\* directory it starts in.
Thm_C10 ==
    (IsToolCall /\ LastTool = "search_files" /\ LastPath.t = "str")
        => \A i \in 1..Len(LastLog) :
              LastLog[i].op = "iterdir"
                 => Len(LastLog[i].path) - Len(CandidatePath(world, LastPath.v)) <= 5

\* C10 happens: a search started in /r/d enumerated the directory 5 levels
\* below it and not the directory that exists 6 levels below it.
Wit_C10 ==
    /\ IsToolCall /\ LastTool = "search_files" /\ LastPath.t = "str"
    /\ CandidatePath(world, LastPath.v) = Chain(1)
    /\ \E i \in 1..Len(LastLog) : LastLog[i] = Acc("iterdir", Chain(6))
    /\ IsDir(world.fs, Chain(7))
    /\ \A i \in 1..Len(LastLog) : LastLog[i] # Acc("iterdir", Chain(7))

\* The last line was a search_files call; the pattern it was called with.
IsSearch == IsToolCall /\ LastTool = "search_files"
LastPattern == ArgGet(LastArguments.pattern)

\* The entries below the root whose name contains the pattern, whatever
\* the case of the letters.
PatternEntries ==
    {p \in DOMAIN world.fs :
        /\ IsPrefix(world.root_path, p) /\ p # world.root_path
        /\ Contains(StrLower(p[Len(p)]), StrLower(LastPattern.v))}

\* C11: the matches list search_files returns has at most 100 elements,
\* and each is an entry of the tree below the root whose name contains the
\* pattern, compared without regard to case.
Thm_C11 ==
    (IsSearch /\ ~IsError(LastResult))
        => /\ Len(LastResult.matches) <= 100
           /\ \A i \in 1..Len(LastResult.matches) :
                 /\ Contains(StrLower(LastResult.matches[i].name), StrLower(LastPattern.v))
                 /\ LastResult.matches[i].name
                       \in ChildNames(world.fs,
                                      Parent(world.root_path \o Parts(LastResult.matches[i].path)))

\* C11 happens: a search for an upper-case pattern in a tree with more
\* than 100 entries whose lower-case names contain it returned 100 matches.
Wit_C11 ==
    /\ IsSearch /\ ~IsError(LastResult)
    /\ LastPattern.t = "str" /\ LastPattern.v # StrLower(LastPattern.v)
    /\ Cardinality(PatternEntries) > 100
    /\ Len(LastResult.matches) = 100

\* The last line was a read_file call; the file at the path it named and
\* the encoding it was called with.
IsRead == IsToolCall /\ LastTool = "read_file"
LastFile == Stat(world.fs, CandidatePath(world, LastPath.v))
LastEncoding == EncodingGet(LastArguments.encoding)

\* The candidate is a regular file read_file has no reason but its size to
\* refuse: it passes the sandbox, its extension is allowed and the
\* encoding decodes it.
OtherwiseReadable ==
    /\ IsRead /\ LastPath.t = "str"
    /\ get_safe_path(world, LastPath).ok
    /\ LastFile.type = "file" /\ LastFile.readable
    /\ StrLower(Suffix(CandidatePath(world, LastPath.v))) \in allowed_extensions
    /\ LastEncoding = "latin-1" \/ (LastEncoding = "utf-8" /\ LastFile.decodes)

\* C12: read_file returns content for no file above max_file_size bytes;
\* an otherwise readable file of exactly max_file_size bytes is returned
\* and one of max_file_size + 1 bytes gives "File too large".
Thm_C12 ==
    /\ (IsRead /\ "content" \in DOMAIN LastResult) => LastFile.size <= max_file_size
    /\ (OtherwiseReadable /\ LastFile.size = max_file_size)
          => /\ "content" \in DOMAIN LastResult
             /\ LastResult.content = LastFile.content
    /\ (OtherwiseReadable /\ LastFile.size = max_file_size + 1)
          => LastResult = [error |-> "File too large"]

\* C12 happens: the file of exactly max_file_size bytes was read.
Wit_C12 ==
    /\ OtherwiseReadable
    /\ LastFile.size = max_file_size
    /\ "content" \in DOMAIN LastResult

\* The extension of the path read_file was called with, lower-cased.
LastSuffix == StrLower(Suffix(CandidatePath(world, LastPath.v)))

\* C13: read_file returns content for no path whose extension, lower-cased,
\* is missing from allowed_extensions, whatever file the path leads to, and
\* refuses a file for its type only when the lower-cased extension is
\* missing from the list.
Thm_C13 ==
    /\ (IsRead /\ "content" \in DOMAIN LastResult) => LastSuffix \in allowed_extensions
    /\ (IsRead /\ LastResult = [error |-> "File type not allowed"])
          => LastSuffix \notin allowed_extensions

\* C13 happens: the path read is a link named with an extension that is
\* not allowed, to a readable file whose own extension is allowed, and it
\* was refused for its type.
Wit_C13 ==
    /\ IsRead /\ LastPath.t = "str"
    /\ IsLink(world.fs, CandidatePath(world, LastPath.v))
    /\ LastSuffix \notin allowed_extensions
    /\ StrLower(Suffix(Canonical(LastPath.v))) \in allowed_extensions
    /\ LastResult = [error |-> "File type not allowed"]

\* The sandbox rejects the path of the tools/call handled last.
Rejected == IsToolCall /\ ~get_safe_path(world, LastPath).ok

\* The one response a rejected tools/call gets, but for the id.
RejectedResponse(id) ==
    Success(id, [content |-> <<[type |-> "text",
                                text |-> [error |-> "Invalid or unsafe path"]]>>])

\* C14: whatever the operation, the path and the reason the sandbox
\* rejects it for (outside the root, a denylisted substring, a resolve()
\* that fails, an argument that is missing or not a str), the response is
\* the same success envelope carrying {"error": "Invalid or unsafe path"}
\* and the id of the request, so the responses to two rejected requests
\* differ in the id at most.
Thm_C14 == Rejected => last.out.response = RejectedResponse(ExpectedId)

\* C14 happens: read_file was called with the path ../etc/passwd and id 1,
\* which resolves outside the root.
Wit_C14 ==
    /\ IsRead /\ Rejected
    /\ LastPath = PyStr(RelStr(<<DotDot, <<"e","t","c">>, <<"p","a","s","s","w","d">>>>))
    /\ ~StartsWith(CanonicalStr(LastPath.v), PathStr(world.root_path))
    /\ LastRequest.id = "1"
    /\ last.out.response = RejectedResponse("1")

\* The entries an operation returned: the items of list_directory, the
\* matches of search_files, none when it returned an error.
LastEntries ==
    IF ~IsToolCall \/ IsError(LastResult) THEN <<>>
    ELSE IF LastTool = "list_directory" THEN LastResult.items
    ELSE IF LastTool = "search_files" THEN LastResult.matches
    ELSE <<>>

\* The path of a returned entry, from the path relative to the root that
\* the entry carries.
EntryPath(e) == world.root_path \o Parts(e.path)

\* The path resolves to a place in the subtree of the root that no
\* denylist substring matches.
ResolvesInside(path) ==
    /\ Resolve(world.fs, path).ok
    /\ IsPrefix(world.root_path, Resolve(world.fs, path).path)
    /\ NoUnsafePattern(StrLower(PathStr(Resolve(world.fs, path).path)))

\* C15: every entry list_directory or search_files returns resolves inside
\* the root and matches no denylist substring, and search_files
\* enumerates, below the directory it starts in, only entries that do.
Cex_C15 ==
    /\ \A i \in 1..Len(LastEntries) : ResolvesInside(EntryPath(LastEntries[i]))
    /\ IsSearch
          => \A i \in 1..Len(LastLog) :
                (LastLog[i].op = "iterdir" /\ LastLog[i].path # CandidatePath(world, LastPath.v))
                    => ResolvesInside(LastLog[i].path)

\* C16: a tools/call that names one of the four tools with arguments that
\* are an object is answered by a success envelope, with result and no
\* error member and one text content item, whatever the arguments and the
\* filesystem; a failure of the operation is the payload {"error": ...}
\* of that item.
Thm_C16 ==
    IsToolCall
        => /\ ~last.out.raised
           /\ DOMAIN last.out.response = {"jsonrpc", "id", "result"}
           /\ DOMAIN last.out.response.result = {"content"}
           /\ Len(last.out.response.result.content) = 1
           /\ last.out.response.result.content[1].type = "text"
           /\ IsError(LastResult) => DOMAIN LastResult = {"error"}

\* C16 happens: read_file was called with an encoding Python does not
\* know on a file it may read, read_text raised, and the response is a
\* success envelope carrying the error.
Wit_C16 ==
    /\ IsRead /\ LastEncoding = "bogus"
    /\ LastResult = [error |-> "LookupError"]
    /\ "result" \in DOMAIN last.out.response
    /\ "error" \notin DOMAIN last.out.response

\* The member of arguments the inputSchema of the called tool lists under
\* "required": pattern for search_files, path for the others.
RequiredArgument ==
    IF LastTool = "search_files" THEN LastArguments.pattern ELSE LastArguments.path

\* C17: when the required member of arguments is missing or is not a str,
\* the request is refused before the operation runs: no filesystem call is
\* made and nothing of the filesystem is returned.
Cex_C17 ==
    (IsToolCall /\ RequiredArgument.t # "str")
        => /\ LastLog = <<>>
           /\ IsError(LastResult)

\* C18: the lines are handled one at a time in the order they are read:
\* a step reads one line and, before the next line is read, writes the
\* response to that line, if it has one, after every response written so
\* far; nothing else is ever written and nothing written changes, so the
\* responses are in the order of their requests.
Thm_C18 ==
    [][ /\ nread' = nread + 1 \/ (nread' = nread /\ last'.kind = "eof")
        /\ output' = IF last'.kind = "json" /\ Printed(last'.out)
                     THEN Append(output, last'.out.response)
                     ELSE output
        /\ last'.kind = "json" => last'.out = handle_request(world, last'.msg) ]_vars

\* C18 happens: two requests with different ids were read, and the
\* response to the first precedes the response to the second.
Wit_C18 ==
    /\ nread = 2 /\ Len(output) = 2
    /\ last.kind = "json" /\ output[2] = last.out.response
    /\ output[1].id = "7" /\ output[2].id = "s"

UnknownMethod ==
    /\ last.kind = "json" /\ last.msg.isobj
    /\ LastRequest.method \notin {"initialize", "initialized", "tools/list", "tools/call"}
UnknownTool ==
    /\ last.kind = "json" /\ last.msg.isobj
    /\ LastRequest.method = "tools/call"
    /\ ParamsGet(LastRequest).t = "obj"
    /\ ParamsGet(LastRequest).name \notin ToolNames

\* C20: a request with an unknown method and a tools/call with an unknown
\* tool name are each answered by an error envelope with code -32601 and
\* the id of the request, which is written, and no operation runs.
Thm_C20 ==
    (UnknownMethod \/ UnknownTool)
        => /\ ~last.out.raised
           /\ DOMAIN last.out.response = {"jsonrpc", "id", "error"}
           /\ last.out.response.error.code = -32601
           /\ last.out.response.id = ExpectedId
           /\ last.out.log = <<>>
           /\ last.wrote /\ output[Len(output)] = last.out.response

\* C20 happens: a request with an unknown method, then a tools/call with
\* an unknown tool name and the id 7, were answered with -32601.
Wit_C20 ==
    /\ nread = 2 /\ Len(output) = 2
    /\ UnknownTool /\ LastRequest.id = "7"
    /\ output[1].error = [code |-> -32601, message |-> "Unknown method"]
    /\ output[2] = Failure("7", -32601, "Unknown tool")

\* The number of matches.append among the first i calls of the search
\* handled last.
Appended(i) == Cardinality({j \in 1..i : LastLog[j].op = "append"})

\* The calls made once matches had 100 elements.
AfterFull == {i \in 1..Len(LastLog) : Appended(i - 1) >= 100}

\* C21 as stated: once matches has 100 elements the walk is over, but for
\* the is_dir() of the entry just appended -- no entry is examined, none
\* appended and no directory entered -- so matches never has more than
\* 100 elements.
Cex_C21 ==
    IsSearch => /\ \A i \in AfterFull : LastLog[i].op = "is_dir"
                /\ Appended(Len(LastLog)) <= 100

\* C21: once matches has 100 elements search_files enters no further
\* directory; the entries of the directories it is in are still examined
\* and appended, and the result is the first 100 elements.
Thm_C21 ==
    IsSearch => /\ \A i \in AfterFull : LastLog[i].op # "iterdir"
                /\ ~IsError(LastResult)
                      => Len(LastResult.matches) = IF Appended(Len(LastLog)) <= 100
                                                   THEN Appended(Len(LastLog)) ELSE 100

\* C21 happens: a search appended more than 100 matches and, matches
\* having 100 elements, met a directory that it did not enter.
Wit_C21 ==
    /\ IsSearch /\ ~IsError(LastResult)
    /\ Appended(Len(LastLog)) > 100
    /\ \E i \in AfterFull :
          /\ LastLog[i].op = "is_dir" /\ IsDir(world.fs, LastLog[i].path)
          /\ \A j \in 1..Len(LastLog) : LastLog[j] # Acc("iterdir", LastLog[i].path)

Cex_C23 ==
    (pc = "called" /\ IsToolCall
       /\ \/ IsRead /\ "content" \in DOMAIN LastResult
          \/ IsListing /\ LastResult.items # <<>>)
        => is_safe_path(world, CandidatePath(world, LastPath.v))

\* The directories iterdir() raises PermissionError on.
Unreadable(fs) == {p \in DOMAIN fs : fs[p].type = "dir" /\ ~fs[p].readable}

\* The filesystem fs but for the directories of the set unreadable, which
\* are readable and empty.
EmptiedFs(fs, unreadable) ==
    Tabulated([p \in {q \in DOMAIN fs :
                        \A k \in 0..(Len(q) - 1) : SubSeq(q, 1, k) \notin unreadable} |->
                  IF p \in unreadable THEN Dir ELSE fs[p]])

\* The server on the same filesystem but for the unreadable directories.
Emptied(w) == [w EXCEPT !.fs = EmptiedFs(w.fs, Unreadable(w.fs))]

\* C24: a directory that cannot be enumerated costs a search what is
\* below that directory and nothing else: the result is the one the same
\* search returns when the directory is empty, with every match found
\* before it and after it, and it is no error on account of the directory.
Thm_C24 ==
    IsSearch => LastResult = search_files(Emptied(world), LastPattern, LastPath).result

\* C24 happens: a search appended a match, then failed to enumerate a
\* subdirectory, then appended another match, and returned matches.
Wit_C24 ==
    /\ IsSearch /\ ~IsError(LastResult) /\ LastPath.t = "str"
    /\ \E i, j, k \in 1..Len(LastLog) :
          /\ i < j /\ j < k
          /\ LastLog[i].op = "append" /\ LastLog[k].op = "append"
          /\ LastLog[j].op = "iterdir"
          /\ Lookup(world.fs, LastLog[j].path).path \in Unreadable(world.fs)
          /\ LastLog[j].path # CandidatePath(world, LastPath.v)
    /\ Len(LastResult.matches) >= 2

====
